---------------------------- MODULE Spec2Model ----------------------------
(***************************************************************************)
(* A model of twisted.web.websockets (RFC 6455, server side): the frame    *)
(* codec (_mask, _makeFrame, _parseFrames) and the connection state        *)
(* machine WebSocketsProtocol (dataReceived, _parseFrames, sendFrame,      *)
(* loseConnection), the adapter WebSocketsProtocolWrapper (frameReceived,  *)
(* write, writeSequence) and WebSocketsResource.render.                    *)
(*                                                                         *)
(* A Python str is a sequence of bytes (0..255).  self._buffer, a list of  *)
(* str that the code only ever reads through "".join, is its joined        *)
(* content.  None is the empty sequence.  A frame is the tuple the         *)
(* generator yields, <<opcode, data, fin>>; its data is tagged             *)
(* (<<"str", bytes>> or the CLOSE pair <<"tuple", code, reason>>), so that *)
(* a str and a pair compare unequal instead of being incomparable.         *)
(***************************************************************************)
EXTENDS Integers, Sequences, FiniteSets, TLC

(***************************************************************************)
(* Python's integer operators on non-negative integers.  x & m, for a mask *)
(* m = hi - lo that is one run of bits (lo and hi powers of two), keeps    *)
(* the bits of x from weight lo up to weight hi: 0x70 is the run 16..128,  *)
(* 0x80 the run 128..256 of a byte, 0x0f the run 1..16, 0x7f the run       *)
(* 1..128.  x | y and x ^ y are computed bit by bit.                       *)
(***************************************************************************)
BitAnd(x, lo, hi) == (x % hi) - (x % lo)

RECURSIVE BitOr(_, _)
BitOr(a, b) ==
    IF a = 0 THEN b
    ELSE IF b = 0 THEN a
    ELSE (IF a % 2 = 1 \/ b % 2 = 1 THEN 1 ELSE 0) + 2 * BitOr(a \div 2, b \div 2)

RECURSIVE BitXor(_, _)
BitXor(a, b) ==
    IF a = 0 THEN b
    ELSE IF b = 0 THEN a
    ELSE ((a + b) % 2) + 2 * BitXor(a \div 2, b \div 2)

\* payload[i:j] of Python, on a 1-based sequence
Slice(s, i, j) == SubSeq(s, i + 1, IF j < Len(s) THEN j ELSE Len(s))

\* a length that exceeds every buffer of the model: stands for the 64-bit
\* lengths that do not fit the model checker's integers
HugeLength == 2147483647

\* struct.pack(">H", n) and struct.pack(">Q", n), for n < 2^31
packH(n) == <<(n \div 256) % 256, n % 256>>
packQ(n) == <<0, 0, 0, 0, (n \div 16777216) % 256, (n \div 65536) % 256,
              (n \div 256) % 256, n % 256>>

\* struct.unpack(">H", s)[0] and struct.unpack(">Q", s)[0]
unpackH(s) == s[1] * 256 + s[2]
unpackQ(s) ==
    IF s[1] = 0 /\ s[2] = 0 /\ s[3] = 0 /\ s[4] = 0 /\ s[5] < 128
    THEN s[5] * 16777216 + s[6] * 65536 + s[7] * 256 + s[8]
    ELSE HugeLength

(***************************************************************************)
(* class CONTROLS: the opcodes, by value.                                  *)
(***************************************************************************)
\* faulty variant of CONTROLS: every 4-bit value is an opcode
AnyOpcode == 0..15

CONTINUE == 0
TEXT == 1
BINARY == 2
CLOSE == 8
PING == 9
PONG == 10
CONTROLS == {CONTINUE, TEXT, BINARY, CLOSE, PING, PONG}

None == <<>>

(***************************************************************************)
(* _mask(buf, key)                                                         *)
(***************************************************************************)
\* faulty variant of mask: the key is applied one byte late
maskShifted(buf, key) == [i \in 1..Len(buf) |-> BitXor(buf[i], key[(i % 4) + 1])]

mask(buf, key) == [i \in 1..Len(buf) |-> BitXor(buf[i], key[((i - 1) % 4) + 1])]

(***************************************************************************)
(* _makeFrame(buf, opcode, fin, mask=None)                                 *)
(***************************************************************************)
makeFrameHeader(opcode, fin) == BitOr(IF fin THEN 128 ELSE 1, opcode)

\* faulty variant of makeFrameLength: the thresholds are one too low
makeFrameLengthEarly(bufferLength, lengthMask) ==
    IF bufferLength > 65534 THEN <<BitOr(lengthMask, 127)>> \o packQ(bufferLength)
    ELSE IF bufferLength > 124 THEN <<BitOr(lengthMask, 126)>> \o packH(bufferLength)
    ELSE <<BitOr(lengthMask, bufferLength)>>

makeFrameLength(bufferLength, lengthMask) ==
    IF bufferLength > 65535 THEN <<BitOr(lengthMask, 127)>> \o packQ(bufferLength)
    ELSE IF bufferLength > 125 THEN <<BitOr(lengthMask, 126)>> \o packH(bufferLength)
    ELSE <<BitOr(lengthMask, bufferLength)>>

makeFrame(buf, opcode, fin, key) ==
    LET lengthMask == IF key # None THEN 128 ELSE 0
        body == IF key # None THEN key \o mask(buf, key) ELSE buf
    IN  <<makeFrameHeader(opcode, fin)>> \o makeFrameLength(Len(buf), lengthMask) \o body

(***************************************************************************)
(* _parseFrames(frameBuffer, needMask=True), the generator.  parseFrames   *)
(* runs it from offset start over payload = "".join(frameBuffer) and       *)
(* returns the frames it yields, whether it raised _WSException, and the   *)
(* offset it stopped at; the generator rewrites frameBuffer only when it   *)
(* is run to exhaustion (compact).                                         *)
(***************************************************************************)
StrData(s) == <<"str", s>>
NoReasonGiven == <<78, 111, 32, 114, 101, 97, 115, 111, 110, 32, 103, 105, 118, 101, 110>>

\* faulty variant of closeData: the status code is left in the reason
closeDataWhole(data) ==
    IF Len(data) >= 2
    THEN <<"tuple", unpackH(Slice(data, 0, 2)), data>>
    ELSE <<"tuple", 1000, NoReasonGiven>>

closeData(data) ==
    IF Len(data) >= 2
    THEN <<"tuple", unpackH(Slice(data, 0, 2)), Slice(data, 2, Len(data))>>
    ELSE <<"tuple", 1000, NoReasonGiven>>

RECURSIVE parseLoop(_, _, _, _)
parseLoop(payload, needMask, start, yielded) ==
    LET n == Len(payload)
        stop == [frames |-> yielded, raised |-> FALSE, start |-> start]
        raise == [frames |-> yielded, raised |-> TRUE, start |-> start]
    IN
    IF n - start < 2 THEN stop
    ELSE
    LET header == payload[start + 1]
        fin == BitAnd(header, 128, 256)          \* header & 0x80
        opcode == BitAnd(header, 1, 16)          \* header & 0xf
        length0 == payload[start + 2]
        masked == BitAnd(length0, 128, 256)      \* length & 0x80
        length7 == BitAnd(length0, 1, 128)       \* length & 0x7f
    IN
    IF BitAnd(header, 16, 128) # 0 THEN raise    \* header & 0x70
    ELSE IF opcode \notin CONTROLS THEN raise
    ELSE IF masked = 0 /\ needMask THEN raise
    ELSE IF length7 = 126 /\ n - start < 4 THEN stop
    ELSE IF length7 = 127 /\ n - start < 10 THEN stop
    ELSE
    LET length == IF length7 = 126 THEN unpackH(Slice(payload, start + 2, start + 4))
                  ELSE IF length7 = 127 THEN unpackQ(Slice(payload, start + 2, start + 10))
                  ELSE length7
        offset0 == IF length7 = 126 THEN 4 ELSE IF length7 = 127 THEN 10 ELSE 2
        offset == IF masked # 0 THEN offset0 + 4 ELSE offset0
    IN
    IF masked # 0 /\ n - (start + offset0) < 4 THEN stop
    ELSE IF n - (start + offset) < length THEN stop
    ELSE
    LET key == Slice(payload, start + offset0, start + offset0 + 4)
        raw == Slice(payload, start + offset, start + offset + length)
        data == IF masked # 0 THEN mask(raw, key) ELSE raw
        frame == <<opcode, IF opcode = CLOSE THEN closeData(data) ELSE StrData(data),
                   fin # 0>>
    IN  parseLoop(payload, needMask, start + offset + length, Append(yielded, frame))

parseFrames(payload, needMask) == parseLoop(payload, needMask, 0, <<>>)

\* faulty variants of compact: the buffer is never rewritten; the buffer is always emptied
compactKeep(payload, start) == payload
compactClear(payload, start) == <<>>

\* the generator's last statements: frameBuffer[:] = [payload[start:]] or []
compact(payload, start) ==
    IF Len(payload) > start THEN Slice(payload, start, Len(payload)) ELSE <<>>


(***************************************************************************)
(* The peer.  wireFrame is a frame on the wire as RFC 6455 lays it out and *)
(* _parseFrames reads it: header byte (fin in bit 7, opcode in bits 0-3),  *)
(* length byte (mask flag in bit 7), extended length, key, masked payload. *)
(* The peer sends a stream of at most MaxFrames frames drawn from          *)
(* PeerFrames, which holds valid masked frames of every opcode and three   *)
(* invalid ones.                                                           *)
(***************************************************************************)
MaxFrames == 2

Key == <<55, 250, 33, 61>>

wireFrame(opcode, payload, fin, key) ==
    LET n == Len(payload)
        flag == IF key # None THEN 128 ELSE 0
    IN  <<(IF fin THEN 128 ELSE 0) + opcode>>
        \o (IF n <= 125 THEN <<flag + n>>
            ELSE IF n <= 65535 THEN <<flag + 126, n \div 256, n % 256>>
            ELSE <<flag + 127, 0, 0, 0, 0, n \div 16777216, (n \div 65536) % 256,
                   (n \div 256) % 256, n % 256>>)
        \o (IF key # None THEN key \o mask(payload, key) ELSE payload)

PeerFrame(opcode, payload, fin) ==
    [valid |-> TRUE, opcode |-> opcode, payload |-> payload, fin |-> fin,
     bytes |-> wireFrame(opcode, payload, fin, Key)]

BadFrame(bytes) ==
    [valid |-> FALSE, opcode |-> -1, payload |-> <<>>, fin |-> FALSE, bytes |-> bytes]

PeerFrames ==
    << PeerFrame(TEXT, <<97>>, TRUE),
       PeerFrame(BINARY, <<72, 101>>, FALSE),
       PeerFrame(CONTINUE, <<108>>, TRUE),
       PeerFrame(PING, <<112>>, TRUE),
       PeerFrame(PONG, <<>>, TRUE),
       PeerFrame(CLOSE, <<3, 232>>, TRUE),
       BadFrame(<<193, 128>>),          \* reserved bit 6 set
       BadFrame(<<131, 128>>),          \* opcode 3
       BadFrame(<<129, 1, 97>>) >>      \* TEXT "a", not masked

RECURSIVE Flatten(_)
Flatten(ids) ==
    IF ids = <<>> THEN <<>> ELSE PeerFrames[Head(ids)].bytes \o Flatten(Tail(ids))

(***************************************************************************)
(* State.                                                                  *)
(***************************************************************************)
VARIABLES
    peer,           \* the frames the peer sends, as indices into PeerFrames
    sent,           \* how many bytes of Flatten(peer) dataReceived has been given
    chunks,         \* dataReceived() calls made so far
    buffer,         \* "".join(self._buffer)
    disconnecting,  \* self._disconnecting
    log,            \* what the connection did, in order: frameReceived calls,
                    \* transport.write, transport.loseConnection, log.msg, log.err
    propagated,     \* whether the last dataReceived() call raised to its caller
    loseCalls,      \* loseConnection() calls made so far: 0, 1, or 2 for two or more
    sends           \* sendFrame() calls made so far

connVars == <<peer, sent, chunks, buffer, disconnecting, log, propagated, loseCalls, sends>>

MaxChunks == 2
MaxSends == 1

wire == Flatten(peer)

(***************************************************************************)
(* WebSocketsProtocol._parseFrames: the loop over the generator.  It       *)
(* returns at the first CLOSE frame, leaving the generator unexhausted.    *)
(***************************************************************************)
\* faulty variant of pong: the PONG carries no payload
pongEmpty(data) == makeFrame(<<>>, PONG, TRUE, None)

\* the PONG that answers a PING: _makeFrame(data, CONTROLS.PONG, True)
pong(data) == makeFrame(data, PONG, TRUE, None)

\* faulty variant of dispatch: the loop goes on after a CLOSE frame
RECURSIVE dispatchOn(_, _)
dispatchOn(frames, done) ==
    IF frames = <<>> THEN [log |-> done, returned |-> FALSE]
    ELSE
    LET opcode == Head(frames)[1]
        data == Head(frames)[2]
        fin == Head(frames)[3]
    IN
    IF opcode \in {CONTINUE, TEXT, BINARY}
    THEN dispatchOn(Tail(frames), Append(done, <<"frameReceived", opcode, data, fin>>))
    ELSE IF opcode = CLOSE
    THEN dispatchOn(Tail(frames),
                    done \o << <<"log.msg", "Closing connection", data[3], data[2]>>,
                               <<"transport.loseConnection">> >>)
    ELSE IF opcode = PING
    THEN dispatchOn(Tail(frames),
                    Append(done, <<"transport.write", makeFrame(data[2], PONG, TRUE, None)>>))
    ELSE dispatchOn(Tail(frames), done)

RECURSIVE dispatch(_, _)
dispatch(frames, done) ==
    IF frames = <<>> THEN [log |-> done, returned |-> FALSE]
    ELSE
    LET opcode == Head(frames)[1]
        data == Head(frames)[2]
        fin == Head(frames)[3]
    IN
    IF opcode \in {CONTINUE, TEXT, BINARY}
    THEN dispatch(Tail(frames), Append(done, <<"frameReceived", opcode, data, fin>>))
    ELSE IF opcode = CLOSE
    THEN [log |-> done \o << <<"log.msg", "Closing connection", data[3], data[2]>>,
                             <<"transport.loseConnection">> >>,
          returned |-> TRUE]
    ELSE IF opcode = PING
    THEN dispatch(Tail(frames),
                  Append(done, <<"transport.write", pong(data[2])>>))
    ELSE dispatch(Tail(frames), done)

protocolParseFrames(buf, done) ==
    LET gen == parseFrames(buf, TRUE)
        d == dispatch(gen.frames, done)
        exhausted == ~d.returned /\ ~gen.raised
    IN  [log |-> d.log,
         raised |-> ~d.returned /\ gen.raised,
         buffer |-> IF exhausted THEN compact(buf, gen.start) ELSE buf]

(***************************************************************************)
(* WebSocketsProtocol.dataReceived(data)                                   *)
(***************************************************************************)
\* faulty variant of dataReceivedResult: a CLOSE frame is written before the transport is
\* closed on a protocol error
dataReceivedResultPolite(buf, done, data) ==
    LET p == protocolParseFrames(buf \o data, done)
    IN  [buffer |-> p.buffer,
         log |-> IF p.raised
                 THEN p.log \o << <<"log.err">>,
                                  <<"transport.write", makeFrame(<<>>, CLOSE, TRUE, None)>>,
                                  <<"transport.loseConnection">> >>
                 ELSE p.log,
         propagated |-> FALSE]

dataReceivedResult(buf, done, data) ==
    LET p == protocolParseFrames(buf \o data, done)
        caught == p.raised      \* except _WSException: all that the parser raises
    IN  [buffer |-> p.buffer,
         log |-> IF caught
                 THEN p.log \o << <<"log.err">>, <<"transport.loseConnection">> >>
                 ELSE p.log,
         propagated |-> p.raised /\ ~caught]

dataReceived ==
    /\ chunks < MaxChunks
    /\ chunks' = chunks + 1
    /\ \E k \in 1..(Len(wire) - sent) :
        LET r == dataReceivedResult(buffer, log, Slice(wire, sent, sent + k))
        IN  /\ sent' = sent + k
            /\ buffer' = r.buffer
            /\ log' = r.log
            /\ propagated' = r.propagated
    /\ UNCHANGED <<peer, disconnecting, loseCalls, sends>>

(***************************************************************************)
(* WebSocketsProtocol.sendFrame(opcode, data, fin)                         *)
(***************************************************************************)
SendData == <<104, 105>>

sendFrame ==
    /\ sends < MaxSends
    /\ \E fin \in BOOLEAN :
          log' = Append(log, <<"transport.write", makeFrame(SendData, TEXT, fin, None)>>)
    /\ sends' = sends + 1
    /\ UNCHANGED <<peer, sent, chunks, buffer, disconnecting, propagated, loseCalls>>

(***************************************************************************)
(* WebSocketsProtocol.loseConnection()                                     *)
(***************************************************************************)
\* faulty variant of loseConnectionLog: self._disconnecting is not consulted
loseConnectionLogAlways(flag, done) ==
    done \o << <<"transport.write", makeFrame(<<>>, CLOSE, TRUE, None)>>,
               <<"transport.loseConnection">> >>

loseConnectionLog(flag, done) ==
    IF ~flag
    THEN done \o << <<"transport.write", makeFrame(<<>>, CLOSE, TRUE, None)>>,
                    <<"transport.loseConnection">> >>
    ELSE done

loseConnection ==
    /\ log' = loseConnectionLog(disconnecting, log)
    /\ disconnecting' = TRUE
    /\ loseCalls' = IF loseCalls < 2 THEN loseCalls + 1 ELSE loseCalls
    /\ UNCHANGED <<peer, sent, chunks, buffer, propagated, sends>>


(***************************************************************************)
(* The codec on its own: one frame, made by _makeFrame or sent by a peer,  *)
(* is handed to _parseFrames, whole or as a prefix followed by the rest.   *)
(* The caller runs the generator to exhaustion (list(_parseFrames(...))).  *)
(***************************************************************************)
VARIABLES
    pc,             \* "input", "frame", "partial" (a prefix was parsed), "rest" (then
                    \* the rest), "whole" (the whole frame was parsed), or "idle"
    input,          \* [opcode, fin, n, key]: the frame's fields, its payload Payload(n)
    origin,         \* "makeFrame" or "peer"
    frame,          \* the frame's bytes
    needMask,       \* the needMask argument of _parseFrames
    cut,            \* how many bytes of the frame the prefix held
    frameBuffer,    \* "".join(frameBuffer), the list given to _parseFrames
    parsed          \* [frames, raised]: what the last parse yielded, whether it raised

codecVars == <<pc, input, origin, frame, needMask, cut, frameBuffer, parsed>>


\* payload lengths on either side of the length-encoding thresholds
SmallLengths == {0, 1, 2, 125, 126}
LargeLengths == {65535, 65536}
PayloadLengths == SmallLengths \cup LargeLengths

\* the payload of n bytes (an explicit sequence): 3, 232 (status 1000), 205, ...
Payload(n) == <<>> \o [i \in 1..n |-> (i * 229 + 30) % 256]

\* frames of every opcode, fin and length, unmasked or masked with Key; of the
\* large ones, those masked are BINARY frames masked with LowKey
LowKey == <<1, 0, 0, 0>>

Inputs ==
    [opcode : CONTROLS, fin : BOOLEAN, n : SmallLengths, key : {None, Key}]
    \cup [opcode : CONTROLS, fin : BOOLEAN, n : LargeLengths, key : {None}]
    \cup [opcode : {BINARY}, fin : {TRUE}, n : LargeLengths, key : {LowKey}]

\* prefixes parsed: the first MaxCut cuts of a frame, and its last two
MaxCut == 14

Cuts(N) == {k \in 0..(N - 1) : k <= MaxCut \/ k >= N - 2}

\* list(_parseFrames(frameBuffer, needMask)): the frames yielded, whether the
\* generator raised, and frameBuffer afterwards
runParse(buf, nm) ==
    LET gen == parseFrames(buf, nm)
    IN  [frames |-> gen.frames, raised |-> gen.raised,
         buffer |-> IF gen.raised THEN buf ELSE compact(buf, gen.start)]

encode ==
    /\ pc = "input"
    /\ frame' = makeFrame(Payload(input.n), input.opcode, input.fin, input.key)
    /\ origin' = "makeFrame"
    /\ pc' = "frame"
    /\ UNCHANGED <<input, needMask, cut, frameBuffer, parsed, connVars>>

arrive ==
    /\ pc = "input"
    /\ frame' = wireFrame(input.opcode, Payload(input.n), input.fin, input.key)
    /\ origin' = "peer"
    /\ pc' = "frame"
    /\ UNCHANGED <<input, needMask, cut, frameBuffer, parsed, connVars>>

parseWhole ==
    /\ pc = "frame"
    /\ \E nm \in BOOLEAN :
          LET r == runParse(frame, nm)
          IN  /\ needMask' = nm
              /\ parsed' = [frames |-> r.frames, raised |-> r.raised]
              /\ frameBuffer' = r.buffer
    /\ pc' = "whole"
    /\ UNCHANGED <<input, origin, frame, cut, connVars>>

parsePrefix ==
    /\ pc = "frame"
    /\ \E nm \in BOOLEAN, k \in Cuts(Len(frame)) :
          LET r == runParse(Slice(frame, 0, k), nm)
          IN  /\ needMask' = nm
              /\ cut' = k
              /\ parsed' = [frames |-> r.frames, raised |-> r.raised]
              /\ frameBuffer' = r.buffer
    /\ pc' = "partial"
    /\ UNCHANGED <<input, origin, frame, connVars>>

parseRest ==
    /\ pc = "partial"
    /\ ~parsed.raised
    /\ LET r == runParse(frameBuffer \o Slice(frame, cut, Len(frame)), needMask)
       IN  /\ parsed' = [frames |-> r.frames, raised |-> r.raised]
           /\ frameBuffer' = r.buffer
    /\ pc' = "rest"
    /\ UNCHANGED <<input, origin, frame, needMask, cut, connVars>>

(***************************************************************************)
(* WebSocketsProtocolWrapper: the adapter between frames and the messages  *)
(* of a wrapped protocol.  Its transport.write calls go to log.            *)
(***************************************************************************)
VARIABLES
    messages,       \* self._messages, the payloads accumulated
    wrapped,        \* the calls made on self.wrappedProtocol, in order
    received,       \* the frameReceived(opcode, data, fin) calls made so far
    defaultOpcode,  \* self.defaultOpcode
    written         \* the messages given to write() and writeSequence() so far

adapterVars == <<messages, wrapped, received, defaultOpcode, written>>

\* calls made on the adapter: frameReceived, write and writeSequence together
MaxCalls == 3

\* the payloads of the frames received, and the messages written
AdapterPayloads == {<<97>>, <<98, 99>>}
AdapterOpcodes == {CONTINUE, TEXT}
WriteMessages == {<<>>, <<104, 105>>}
WriteSequences == {<<>>} \cup [1..1 -> WriteMessages] \cup [1..2 -> WriteMessages]

\* "".join(self._messages)
RECURSIVE Join(_)
Join(list) == IF list = <<>> THEN <<>> ELSE Head(list) \o Join(Tail(list))

\* faulty variant of wrapperFrameReceived: the accumulator is not cleared
wrapperFrameReceivedKeep(msgs, data, fin) ==
    LET appended == Append(msgs, data)
    IN  [messages |-> appended,
         calls |-> IF fin THEN << <<"dataReceived", Join(appended)>> >> ELSE <<>>]

\* WebSocketsProtocolWrapper.frameReceived: the accumulator afterwards and the
\* calls made on the wrapped protocol
wrapperFrameReceived(msgs, data, fin) ==
    LET appended == Append(msgs, data)
    IN  IF fin
        THEN [messages |-> <<>>, calls |-> << <<"dataReceived", Join(appended)>> >>]
        ELSE [messages |-> appended, calls |-> <<>>]

frameReceived ==
    /\ Len(received) + sends < MaxCalls
    /\ \E opcode \in AdapterOpcodes, data \in AdapterPayloads, fin \in BOOLEAN :
          LET r == wrapperFrameReceived(messages, data, fin)
          IN  /\ messages' = r.messages
              /\ wrapped' = wrapped \o r.calls
              /\ received' = Append(received, <<opcode, data, fin>>)
    /\ UNCHANGED <<defaultOpcode, written, connVars>>

\* WebSocketsProtocol.sendFrame: transport.write(_makeFrame(data, opcode, fin))
sendFrameLog(done, opcode, data, fin) ==
    Append(done, <<"transport.write", makeFrame(data, opcode, fin, None)>>)

\* faulty variant of writeLog: the frame is not final
writeLogNotFinal(done, opcode, data) == sendFrameLog(done, opcode, data, FALSE)

\* WebSocketsProtocolWrapper.write: self.sendFrame(self.defaultOpcode, data, True)
writeLog(done, opcode, data) == sendFrameLog(done, opcode, data, TRUE)

\* WebSocketsProtocolWrapper.writeSequence: for chunk in data: self.write(chunk)
RECURSIVE writeSequenceLog(_, _, _)
writeSequenceLog(done, opcode, data) ==
    IF data = <<>> THEN done
    ELSE writeSequenceLog(writeLog(done, opcode, Head(data)), opcode, Tail(data))

write ==
    /\ Len(received) + sends < MaxCalls
    /\ \E data \in WriteMessages :
          /\ log' = writeLog(log, defaultOpcode, data)
          /\ written' = Append(written, data)
    /\ sends' = sends + 1
    /\ UNCHANGED <<messages, wrapped, received, defaultOpcode>>
    /\ UNCHANGED <<peer, sent, chunks, buffer, disconnecting, propagated, loseCalls>>

writeSequence ==
    /\ Len(received) + sends < MaxCalls
    /\ \E data \in WriteSequences :
          /\ log' = writeSequenceLog(log, defaultOpcode, data)
          /\ written' = written \o data
    /\ sends' = sends + 1
    /\ UNCHANGED <<messages, wrapped, received, defaultOpcode>>
    /\ UNCHANGED <<peer, sent, chunks, buffer, disconnecting, propagated, loseCalls>>

\* the adapter after connectionMade (self._messages = []), wrapping with TEXT
adapterIdle ==
    /\ messages = <<>>
    /\ wrapped = <<>>
    /\ received = <<>>
    /\ defaultOpcode = TEXT
    /\ written = <<>>

(***************************************************************************)
(* WebSocketsResource.render(request).  A header that is absent (getHeader *)
(* returns None) is <<>>, one that is present is <<value>>.  The values of *)
(* Upgrade and Connection are byte strings, since render lowers and        *)
(* searches them; the others are only compared.                            *)
(***************************************************************************)
VARIABLES
    request,        \* [method, upgrade, connection, key, version, tls]: the request;
                    \* tls: transport.protocol is a TLSMemoryBIOProtocol
    lookup,         \* [protocol, name]: what self._lookupProtocol returns; protocol is
                    \* "none" (None), "frames" (provides IWebSocketsProtocol) or "plain"
    ops,            \* what render did to the request and the transport, in order
    result          \* what render returned, "unrendered" before

renderVars == <<request, lookup, ops, result>>

\* str.lower() on bytes
lower(str) == [i \in 1..Len(str) |-> IF str[i] >= 65 /\ str[i] <= 90 THEN str[i] + 32 ELSE str[i]]

\* sub in str
contains(sub, str) ==
    \E i \in 0..(Len(str) - Len(sub)) : SubSeq(str, i + 1, i + Len(sub)) = sub

websocket == <<119, 101, 98, 115, 111, 99, 107, 101, 116>>
upgrade == <<117, 112, 103, 114, 97, 100, 101>>

\* header values a client may send
WebSocketMixed == <<87, 101, 98, 83, 111, 99, 107, 101, 116>>            \* "WebSocket"
H2c == <<104, 50, 99>>                                                   \* "h2c"
UpgradeMixed == <<85, 112, 103, 114, 97, 100, 101>>                      \* "Upgrade"
KeepAliveUpgrade == <<107, 101, 101, 112, 45, 97, 108, 105, 118, 101, 44, 32>> \o UpgradeMixed
Close == <<99, 108, 111, 115, 101>>                                      \* "close"

Requests ==
    [method : {"GET", "POST"},
     upgrade : {None, <<websocket>>, <<WebSocketMixed>>, <<H2c>>},
     connection : {None, <<UpgradeMixed>>, <<KeepAliveUpgrade>>, <<Close>>},
     key : {None, <<"dGhlIHNhbXBsZSBub25jZQ==">>},
     version : {None, <<"13">>, <<"8">>},
     tls : BOOLEAN]

Lookups ==
    {[protocol |-> "none", name |-> None]}
    \cup [protocol : {"frames", "plain"}, name : {None, <<"">>, <<"chat">>}]

\* _makeAccept(key): the SHA-1 digest of key and GUID in base64, kept symbolic
makeAccept(key) == <<"base64(sha1(key + _WS_GUID))", key>>

\* faulty variant of handshakeFailed: the challenge key is not required
handshakeFailedNoKey(req) ==
    \/ req.method # "GET"
    \/ req.upgrade = None \/ ~contains(websocket, lower(req.upgrade[1]))
    \/ req.connection = None \/ ~contains(upgrade, lower(req.connection[1]))
    \/ req.version # <<"13">>

\* the five checks: failed
handshakeFailed(req) ==
    \/ req.method # "GET"
    \/ req.upgrade = None \/ ~contains(websocket, lower(req.upgrade[1]))
    \/ req.connection = None \/ ~contains(upgrade, lower(req.connection[1]))
    \/ req.key = None
    \/ req.version # <<"13">>

\* what render does when a check failed
rejectOps(req) ==
    (IF req.version # <<"13">>
     THEN << <<"setHeader", "Sec-WebSocket-Version", "13">> >> ELSE <<>>)
    \o << <<"setResponseCode", 400>> >>

\* faulty variant of noProtocolOps: the handshake is answered before giving up
noProtocolOpsAccept(req) ==
    << <<"lookupProtocol">>,
       <<"setResponseCode", 101>>,
       <<"setHeader", "Sec-WebSocket-Accept", makeAccept(req.key[1])>>,
       <<"setResponseCode", 502>> >>

\* what render does when no protocol is created
noProtocolOps(req) == << <<"lookupProtocol">>, <<"setResponseCode", 502>> >>

\* the protocol connected: itself, or wrapped by WebSocketsProtocolWrapper
connected(lk) ==
    IF lk.protocol = "frames" THEN <<"handler">>
    ELSE <<"WebSocketsProtocolWrapper", "handler">>

\* faulty variant of upgradeOps: the transport is given to the protocol while the
\* request still holds it
upgradeOpsAttachFirst(req, lk) ==
    << <<"lookupProtocol">>,
       <<"setResponseCode", 101>>,
       <<"setHeader", "Upgrade", "WebSocket">>,
       <<"setHeader", "Connection", "Upgrade">>,
       <<"setHeader", "Sec-WebSocket-Accept", makeAccept(req.key[1])>>,
       <<"write", "">>,
       <<"transport.protocol =", connected(lk)>>,
       <<"makeConnection", connected(lk)>>,
       <<"request.transport =", None>> >>

\* what render does to finish the handshake and hand the transport over
upgradeOps(req, lk) ==
    << <<"lookupProtocol">>,
       <<"setResponseCode", 101>>,
       <<"setHeader", "Upgrade", "WebSocket">>,
       <<"setHeader", "Connection", "Upgrade">>,
       <<"setHeader", "Sec-WebSocket-Accept", makeAccept(req.key[1])>> >>
    \o (IF lk.name # None /\ lk.name # <<"">>
        THEN << <<"setHeader", "Sec-WebSocket-Protocol", lk.name[1]>> >> ELSE <<>>)
    \o << <<"write", "">>,
          <<"request.transport =", None>>,
          IF req.tls THEN <<"transport.protocol.wrappedProtocol =", connected(lk)>>
          ELSE <<"transport.protocol =", connected(lk)>>,
          <<"makeConnection", connected(lk)>> >>

\* request.defaultContentType = None, the first thing render does
firstOps == << <<"request.defaultContentType =", None>> >>

renderResult(req, lk) ==
    IF handshakeFailed(req) THEN [ops |-> firstOps \o rejectOps(req), result |-> ""]
    ELSE IF lk.protocol = "none" THEN [ops |-> firstOps \o noProtocolOps(req), result |-> ""]
    ELSE [ops |-> firstOps \o upgradeOps(req, lk), result |-> "NOT_DONE_YET"]

render ==
    /\ result = "unrendered"
    /\ ops' = renderResult(request, lookup).ops
    /\ result' = renderResult(request, lookup).result
    /\ UNCHANGED <<request, lookup>>

\* no request is being rendered
renderIdle ==
    /\ request = [method |-> "GET", upgrade |-> None, connection |-> None,
                  key |-> None, version |-> None, tls |-> FALSE]
    /\ lookup = [protocol |-> "none", name |-> None]
    /\ ops = <<>>
    /\ result = "idle"

(***************************************************************************)
(* The specifications.  Spec: a connection (connectionMade, then the       *)
(* transport's dataReceived and the application's loseConnection, in any   *)
(* order).  SpecApp: the same with the application's sendFrame.            *)
(* SpecCodec: the codec on its own.                                        *)
(***************************************************************************)
vars == <<connVars, codecVars, adapterVars, renderVars>>

\* the state of the adapter and of render
restVars == <<adapterVars, renderVars>>

PeerStreams == UNION {[1..n -> 1..Len(PeerFrames)] : n \in 1..MaxFrames}

connInit ==
    /\ sent = 0
    /\ chunks = 0
    /\ buffer = <<>>
    /\ disconnecting = FALSE
    /\ log = <<>>
    /\ propagated = FALSE
    /\ loseCalls = 0
    /\ sends = 0

codecIdle ==
    /\ pc = "idle"
    /\ input = [opcode |-> TEXT, fin |-> TRUE, n |-> 0, key |-> None]
    /\ origin = "peer"
    /\ frame = <<>>
    /\ needMask = TRUE
    /\ cut = 0
    /\ frameBuffer = <<>>
    /\ parsed = [frames |-> <<>>, raised |-> FALSE]

Init ==
    /\ peer \in PeerStreams
    /\ connInit
    /\ codecIdle
    /\ adapterIdle
    /\ renderIdle

Next ==
    \/ dataReceived /\ UNCHANGED <<codecVars, restVars>>
    \/ loseConnection /\ UNCHANGED <<codecVars, restVars>>

Spec == Init /\ [][Next]_vars

NextApp ==
    \/ Next
    \/ sendFrame /\ UNCHANGED <<codecVars, restVars>>

SpecApp == Init /\ [][NextApp]_vars

InitCodec ==
    /\ peer = <<>>
    /\ connInit
    /\ pc = "input"
    /\ input \in Inputs
    /\ origin = "peer"
    /\ frame = <<>>
    /\ needMask = TRUE
    /\ cut = 0
    /\ frameBuffer = <<>>
    /\ parsed = [frames |-> <<>>, raised |-> FALSE]
    /\ adapterIdle
    /\ renderIdle

NextCodec ==
    \/ encode /\ UNCHANGED restVars
    \/ arrive /\ UNCHANGED restVars
    \/ parseWhole /\ UNCHANGED restVars
    \/ parsePrefix /\ UNCHANGED restVars
    \/ parseRest /\ UNCHANGED restVars

SpecCodec == InitCodec /\ [][NextCodec]_vars

(***************************************************************************)
(* The parser on untrusted bytes: frameBuffer holds some complete valid    *)
(* frames, then any header byte, one of LengthBytes as the second byte,    *)
(* and up to MaxRest further bytes.  Here input is [before, header,        *)
(* length, rest] and origin is "header".                                   *)
(***************************************************************************)
MaxBefore == 1
MaxRest == 2

\* second bytes: lengths 0, 1, the two extended forms, with and without mask flag
LengthBytes == {0, 1, 126, 127, 128, 129, 254, 255}

\* the complete valid frame that precedes: TEXT "a", final, masked with Key
BeforeFrame == wireFrame(TEXT, <<97>>, TRUE, Key)

RestBytes == <<98, 99, 100, 101, 102, 103, 104, 105>>

HeaderInputs ==
    [before : 0..MaxBefore, header : 0..255, length : LengthBytes, rest : 0..MaxRest]

RECURSIVE Repeat(_, _)
Repeat(s, k) == IF k = 0 THEN <<>> ELSE s \o Repeat(s, k - 1)

headerBuffer(in) ==
    Repeat(BeforeFrame, in.before) \o <<in.header, in.length>> \o SubSeq(RestBytes, 1, in.rest)

InitHeader ==
    /\ peer = <<>>
    /\ connInit
    /\ pc = "frame"
    /\ input \in HeaderInputs
    /\ origin = "header"
    /\ frame = headerBuffer(input)
    /\ needMask = TRUE
    /\ cut = 0
    /\ frameBuffer = <<>>
    /\ parsed = [frames |-> <<>>, raised |-> FALSE]
    /\ adapterIdle
    /\ renderIdle

NextHeader == parseWhole /\ UNCHANGED restVars

SpecHeader == InitHeader /\ [][NextHeader]_vars

(***************************************************************************)
(* SpecMask: _mask on its own, applied to a byte string and then to its    *)
(* own result with the same key.  Here input is [data, key], frame is the  *)
(* result of the last call and pc is "data", "masked" or "unmasked".       *)
(***************************************************************************)
MaxData == 5

DataBytes == {0, 97, 255}
KeyBytes == {0, 55, 255}

MaskInputs ==
    [data : UNION {[1..n -> DataBytes] : n \in 0..MaxData},
     key : [1..4 -> KeyBytes]]

maskData ==
    /\ pc = "data"
    /\ frame' = mask(input.data, input.key)
    /\ pc' = "masked"
    /\ UNCHANGED <<input, origin, needMask, cut, frameBuffer, parsed, connVars, restVars>>

unmaskData ==
    /\ pc = "masked"
    /\ frame' = mask(frame, input.key)
    /\ pc' = "unmasked"
    /\ UNCHANGED <<input, origin, needMask, cut, frameBuffer, parsed, connVars, restVars>>

InitMask ==
    /\ peer = <<>>
    /\ connInit
    /\ pc = "data"
    /\ input \in MaskInputs
    /\ origin = "mask"
    /\ frame = <<>>
    /\ needMask = TRUE
    /\ cut = 0
    /\ frameBuffer = <<>>
    /\ parsed = [frames |-> <<>>, raised |-> FALSE]
    /\ adapterIdle
    /\ renderIdle

NextMask == maskData \/ unmaskData

SpecMask == InitMask /\ [][NextMask]_vars

(***************************************************************************)
(* SpecAdapter: a WebSocketsProtocolWrapper after connectionMade, wrapping *)
(* with TEXT or BINARY as default opcode; frames are handed to it and the  *)
(* wrapped protocol writes messages, in any order.                         *)
(***************************************************************************)
InitAdapter ==
    /\ peer = <<>>
    /\ connInit
    /\ codecIdle
    /\ messages = <<>>
    /\ wrapped = <<>>
    /\ received = <<>>
    /\ defaultOpcode \in {TEXT, BINARY}
    /\ written = <<>>
    /\ renderIdle

NextAdapter ==
    \/ frameReceived /\ UNCHANGED <<codecVars, renderVars>>
    \/ write /\ UNCHANGED <<codecVars, renderVars>>
    \/ writeSequence /\ UNCHANGED <<codecVars, renderVars>>

SpecAdapter == InitAdapter /\ [][NextAdapter]_vars

(***************************************************************************)
(* SpecAdapted: a WebSocketsProtocolWrapper as the connection.  It         *)
(* inherits dataReceived and _parseFrames; the frameReceived calls they    *)
(* make are its own frameReceived.  The peer sends up to three valid       *)
(* frames: fragments of messages, PINGs and PONGs.                         *)
(***************************************************************************)
AdaptedStreams == UNION {[1..n -> {2, 3, 4, 5}] : n \in 1..3}

\* one entry of the log: a frameReceived call is made on the adapter
feedFrame(acc, entry) ==
    IF entry[1] = "frameReceived"
    THEN [messages |-> wrapperFrameReceived(acc.messages, entry[3][2], entry[4]).messages,
          calls |-> acc.calls \o wrapperFrameReceived(acc.messages, entry[3][2], entry[4]).calls,
          frames |-> Append(acc.frames, <<entry[2], entry[3][2], entry[4]>>)]
    ELSE acc

\* the frameReceived calls among the entries of the log, in order
RECURSIVE feedWrapper(_, _)
feedWrapper(entries, acc) ==
    IF entries = <<>> THEN acc
    ELSE feedWrapper(Tail(entries), feedFrame(acc, Head(entries)))

adaptedDataReceived ==
    /\ chunks < MaxChunks
    /\ chunks' = chunks + 1
    /\ \E k \in 1..(Len(wire) - sent) :
        LET r == dataReceivedResult(buffer, log, Slice(wire, sent, sent + k))
        IN  /\ sent' = sent + k
            /\ buffer' = r.buffer
            /\ log' = r.log
            /\ propagated' = r.propagated
    /\ LET f == feedWrapper(SubSeq(log', Len(log) + 1, Len(log')),
                            [messages |-> messages, calls |-> wrapped, frames |-> received])
       IN  /\ messages' = f.messages
           /\ wrapped' = f.calls
           /\ received' = f.frames
    /\ UNCHANGED <<peer, disconnecting, loseCalls, sends, defaultOpcode, written>>

InitAdapted ==
    /\ peer \in AdaptedStreams
    /\ connInit
    /\ codecIdle
    /\ adapterIdle
    /\ renderIdle

NextAdapted == adaptedDataReceived /\ UNCHANGED <<codecVars, renderVars>>

SpecAdapted == InitAdapted /\ [][NextAdapted]_vars

(***************************************************************************)
(* SpecRender: a WebSocketsResource renders one request.                   *)
(***************************************************************************)
InitRender ==
    /\ peer = <<>>
    /\ connInit
    /\ codecIdle
    /\ adapterIdle
    /\ request \in Requests
    /\ lookup \in Lookups
    /\ ops = <<>>
    /\ result = "unrendered"

NextRender == render /\ UNCHANGED <<connVars, codecVars, adapterVars>>

SpecRender == InitRender /\ [][NextRender]_vars

(***************************************************************************)
(* Properties of the connection (Spec).  What the peer sent is known from  *)
(* peer, so what the connection should have done is stated from the        *)
(* frames themselves, not from the parser.                                 *)
(***************************************************************************)
\* the stream offset at which the j-th frame of the peer ends
FrameEnd(j) == Len(Flatten(SubSeq(peer, 1, j)))

\* how many frames of the peer have arrived completely
Completed ==
    CHOOSE j \in 0..Len(peer) :
        /\ FrameEnd(j) <= sent
        /\ j = Len(peer) \/ FrameEnd(j + 1) > sent

AllValid == \A j \in 1..Len(peer) : PeerFrames[peer[j]].valid

\* the valid frames that precede the first invalid one
BeforeBad ==
    LET bad == {j \in 1..Len(peer) : ~PeerFrames[peer[j]].valid}
    IN  IF bad = {} THEN peer
        ELSE SubSeq(peer, 1, (CHOOSE j \in bad : \A i \in bad : j <= i) - 1)

\* an unmasked final PONG frame with this payload (shorter than 126 bytes)
PongBytes(payload) == <<138, Len(payload)>> \o payload

\* an unmasked final CLOSE frame with no payload
CloseBytes == <<136, 0>>

\* what the connection does with a valid frame that is neither CLOSE nor invalid
ExpectedEvents(f) ==
    IF f.opcode \in {CONTINUE, TEXT, BINARY}
    THEN << <<"frameReceived", f.opcode, StrData(f.payload), f.fin>> >>
    ELSE IF f.opcode = PING
    THEN << <<"transport.write", PongBytes(f.payload)>> >>
    ELSE <<>>

RECURSIVE Expected(_)
Expected(ids) ==
    IF ids = <<>> THEN <<>>
    ELSE ExpectedEvents(PeerFrames[Head(ids)]) \o Expected(Tail(ids))

IsForward(e) == e[1] = "frameReceived"
IsPong(e) == e[1] = "transport.write" /\ e[2][1] % 16 = PONG
IsDispatch(e) == IsForward(e) \/ IsPong(e)
IsErr(e) == e[1] = "log.err"
IsCloseWrite(e) == e[1] = "transport.write" /\ e[2][1] % 16 = CLOSE

\* the frames forwarded to the application and the PONGs written, in order
DispatchLog == SelectSeq(log, IsDispatch)

ErrCount(l) == Len(SelectSeq(l, IsErr))
CloseReceived == \E i \in 1..Len(log) : log[i][1] = "log.msg"

\* no CLOSE frame received and no protocol error so far
Open == ErrCount(log) = 0 /\ ~CloseReceived

\* a step of dataReceived, of loseConnection
DataReceivedStep == chunks' = chunks + 1
LoseConnectionStep == chunks' = chunks /\ sends' = sends

\* C1: after every dataReceived pass over valid frames the buffer holds exactly
\* the bytes of the trailing partial frame, and nothing of a complete frame.
C1_BufferHoldsOnlyPartialFrame ==
    AllValid => buffer = Slice(wire, FrameEnd(Completed), sent)

\* C2: on an open connection, however the bytes were split into dataReceived
\* calls, the frames forwarded and the PONGs written are exactly those of the
\* frames received completely, in stream order.
C2_DispatchInStreamOrder ==
    Open => DispatchLog = Expected(SubSeq(peer, 1, Completed))

\* two frames, one of them a PING, have been dispatched over two dataReceived
\* calls, the second of which completed a frame the first had left partial
C2_Witness ==
    /\ Open
    /\ chunks = 2
    /\ Completed = 2
    /\ Len(DispatchLog) = 2
    /\ \E i \in 1..2 : IsPong(DispatchLog[i])
    /\ \E i \in 1..2 : IsForward(DispatchLog[i])
    /\ buffer = <<>>

\* C6: after a CLOSE frame was received, loseConnection() writes nothing and
\* does not close the transport again.
C6_LoseConnectionAfterClose ==
    [][(CloseReceived /\ LoseConnectionStep) => log' = log]_vars

\* C7: once a dataReceived call has met a protocol error, no later dataReceived
\* call forwards a frame or writes a PONG.
C7_NothingAfterError ==
    [][(ErrCount(log) > 0 /\ DataReceivedStep) => DispatchLog' = DispatchLog]_vars

\* C8: a dataReceived call that meets a protocol error reports it and then
\* closes the transport, as the last things it does; before that it only
\* dispatches valid frames that precede the invalid one, so the offending frame
\* is not forwarded; it writes no CLOSE frame; and it does not raise.
C8_ErrorClosesTransport ==
    [][ErrCount(log') > ErrCount(log) =>
        LET added == SubSeq(log', Len(log) + 1, Len(log'))
            n == Len(added)
            valid == Expected(BeforeBad)
        IN  /\ ~AllValid
            /\ n >= 2
            /\ added[n - 1] = <<"log.err">>
            /\ added[n] = <<"transport.loseConnection">>
            /\ n - 2 <= Len(valid)
            /\ SubSeq(added, 1, n - 2) = SubSeq(valid, Len(valid) - (n - 2) + 1, Len(valid))
            /\ \A i \in 1..n : ~IsCloseWrite(added[i])
            /\ ~propagated'
    ]_vars

\* a protocol error was met after a frame had been forwarded
C8_Witness ==
    /\ ErrCount(log) = 1
    /\ Len(log) = 3
    /\ IsForward(log[1])
    /\ log[3] = <<"transport.loseConnection">>

\* C9: the first loseConnection() writes one CLOSE frame (no payload, fin set,
\* unmasked) and then closes the transport; every later one does nothing.
C9_LoseConnectionIdempotent ==
    [][LoseConnectionStep =>
        /\ disconnecting = (loseCalls > 0)
        /\ disconnecting'
        /\ log' = IF loseCalls = 0
                  THEN log \o << <<"transport.write", CloseBytes>>,
                                 <<"transport.loseConnection">> >>
                  ELSE log
    ]_vars

\* loseConnection() was called twice and one CLOSE frame was written
C9_Witness ==
    /\ loseCalls = 2
    /\ disconnecting
    /\ Len(SelectSeq(log, IsCloseWrite)) = 1

\* the frames that arrived while the connection was open: those that precede
\* the first CLOSE frame and the first invalid frame
OpenPrefix ==
    LET ends == {j \in 1..Len(peer) :
                    ~PeerFrames[peer[j]].valid \/ PeerFrames[peer[j]].opcode = CLOSE}
    IN  IF ends = {} THEN peer
        ELSE SubSeq(peer, 1, (CHOOSE j \in ends : \A i \in ends : j <= i) - 1)

ReceivedOpen ==
    SubSeq(peer, 1, IF Completed < Len(OpenPrefix) THEN Completed ELSE Len(OpenPrefix))

\* C10: every PING received on an open connection has produced exactly one PONG
\* (unmasked, fin set, the PING's payload), the PONGs are written in the order
\* of their PINGs, and a PING is never forwarded to the application.
C10_ExactlyOnePong ==
    /\ \A i \in 1..Len(log) : IsForward(log[i]) => log[i][2] # PING
    /\ SelectSeq(log, IsPong) = SelectSeq(Expected(ReceivedOpen), IsPong)

\* while the connection is still open, the PONGs written are those of the PINGs
\* received, each at its PING's place among the dispatches
PingAnsweredWhileOpen ==
    Open =>
        \A j \in 1..Completed :
            PeerFrames[peer[j]].opcode = PING =>
                LET at == Len(Expected(SubSeq(peer, 1, j - 1))) + 1
                IN  /\ at <= Len(DispatchLog)
                    /\ DispatchLog[at] =
                          <<"transport.write", PongBytes(PeerFrames[peer[j]].payload)>>

(***************************************************************************)
(* Properties of the codec (SpecCodec).                                    *)
(***************************************************************************)
\* the frame (opcode, payload, fin) the input describes
Original == <<input.opcode, StrData(Payload(input.n)), input.fin>>

\* the same with the payload of a CLOSE frame as the (code, reason) pair it decodes to
OriginalDecoded ==
    LET p == Payload(input.n)
    IN  <<input.opcode,
          IF input.opcode # CLOSE THEN StrData(p)
          ELSE IF input.n >= 2 THEN <<"tuple", p[1] * 256 + p[2], SubSeq(p, 3, input.n)>>
          ELSE <<"tuple", 1000, NoReasonGiven>>,
          input.fin>>

\* a valid frame from the peer, parsed in a mode that accepts it
ValidForMode == origin = "peer" /\ (needMask => input.key # None)

\* C3 as stated: a proper prefix of a valid frame yields no frame and leaves the
\* buffer as it was; the rest then yields exactly one frame, equal to the original
\* (opcode, payload, fin), and leaves the buffer empty.
C3_PartialThenOriginal ==
    /\ (pc = "partial" /\ ValidForMode) =>
          /\ ~parsed.raised
          /\ parsed.frames = <<>>
          /\ frameBuffer = Slice(frame, 0, cut)
    /\ (pc = "rest" /\ ValidForMode) =>
          /\ ~parsed.raised
          /\ parsed.frames = <<Original>>
          /\ frameBuffer = <<>>

\* C3 amended: a proper prefix of a valid frame yields no frame and leaves the
\* buffer as it was; the rest then yields exactly one frame, with the original
\* opcode and fin and the original payload (of a CLOSE frame: the (code, reason)
\* pair the payload decodes to), and leaves the buffer empty.
C3_PartialThenDecoded ==
    /\ (pc = "partial" /\ ValidForMode) =>
          /\ ~parsed.raised
          /\ parsed.frames = <<>>
          /\ frameBuffer = Slice(frame, 0, cut)
    /\ (pc = "rest" /\ ValidForMode) =>
          /\ ~parsed.raised
          /\ parsed.frames = <<OriginalDecoded>>
          /\ frameBuffer = <<>>

\* a masked CLOSE frame in the 2-byte length form was parsed one byte short of
\* its end, then completed
C3_Witness ==
    /\ pc = "rest"
    /\ ValidForMode
    /\ input.opcode = CLOSE
    /\ input.n = 126
    /\ input.key = Key
    /\ cut = Len(frame) - 1
    /\ Len(parsed.frames) = 1

\* C4: parsing (needMask false) what _makeFrame made of (payload, opcode, fin)
\* yields exactly one frame, and it equals (opcode, payload, fin).
C4_RoundTrip ==
    (pc = "whole" /\ origin = "makeFrame" /\ input.key = None /\ ~needMask) =>
        /\ ~parsed.raised
        /\ parsed.frames = <<Original>>

\* C5: the first byte _makeFrame writes has bit 7 equal to fin, bits 0-3 equal to
\* the opcode's value, and bits 4-6 zero.
C5_HeaderByte ==
    (pc = "frame" /\ origin = "makeFrame") =>
        /\ frame[1] \div 128 = (IF input.fin THEN 1 ELSE 0)
        /\ frame[1] % 16 = input.opcode
        /\ (frame[1] \div 16) % 8 = 0


(***************************************************************************)
(* Properties of the parser on untrusted bytes (SpecHeader).               *)
(***************************************************************************)
HeaderParsed == pc = "whole" /\ origin = "header"

\* what the two header bytes say, by arithmetic on the bytes
ReservedSet == (input.header \div 16) % 8 # 0
OpcodeDefined == input.header % 16 \in {0, 1, 2, 8, 9, 10}
MaskFlag == input.length >= 128

\* the frame that starts with the two bytes is unmasked, and all of it is buffered
UnmaskedComplete == ~MaskFlag /\ input.length <= input.rest

\* bytes of a further frame follow the frame that starts with the two bytes
Trailing == ~MaskFlag /\ input.length < input.rest

\* C11: with the first two bytes of a frame buffered, whether or not the rest
\* of the frame has arrived, parse raises when a reserved bit is set, or the
\* opcode is not one of 0, 1, 2, 8, 9, 10, or needMask is true and the mask
\* flag is clear, and (no further frame following) only then; with needMask
\* false a complete unmasked frame is yielded.
C11_HeaderValidation ==
    HeaderParsed =>
        /\ (ReservedSet \/ ~OpcodeDefined \/ (needMask /\ ~MaskFlag)) => parsed.raised
        /\ ~Trailing =>
              parsed.raised = (ReservedSet \/ ~OpcodeDefined \/ (needMask /\ ~MaskFlag))
        /\ (~needMask /\ ~ReservedSet /\ OpcodeDefined /\ UnmaskedComplete) =>
              /\ Len(parsed.frames) >= input.before + 1
              /\ parsed.frames[input.before + 1][1] = input.header % 16
              /\ parsed.frames[input.before + 1][3] = (input.header >= 128)

\* only the two header bytes are buffered, the opcode is 3, and parse raised
C11_Witness ==
    /\ HeaderParsed
    /\ input.before = 0
    /\ input.rest = 0
    /\ input.header = 131
    /\ input.length = 128
    /\ parsed.raised

\* the two header bytes of an unmasked TEXT frame of one byte, with that byte,
\* were accepted with needMask false
C11_WitnessAccepted ==
    /\ HeaderParsed
    /\ ~needMask
    /\ input.header = 129
    /\ input.length = 1
    /\ input.rest = 1
    /\ ~parsed.raised
    /\ Len(parsed.frames) = input.before + 1

\* C12: a parse call that meets a header byte with a reserved bit set raises
\* and yields no frame, whatever complete frames precede it in the buffer.
C12_ReservedBitsYieldNothing ==
    (HeaderParsed /\ ReservedSet) => parsed.raised /\ parsed.frames = <<>>

\* the frames that precede the header with a reserved bit are yielded, that
\* frame and what follows it are not, and the call raises
C12_ReservedBitsAbort ==
    (HeaderParsed /\ ReservedSet) =>
        /\ parsed.raised
        /\ Len(parsed.frames) = input.before
        /\ \A i \in 1..Len(parsed.frames) : parsed.frames[i] = <<TEXT, StrData(<<97>>), TRUE>>
        /\ frameBuffer = frame



(***************************************************************************)
(* Properties of the adapter (SpecAdapter).                                *)
(***************************************************************************)
\* the calls that carried fin, in order
FinCalls == {i \in 1..Len(received) : received[i][3]}

\* the last call before the i-th that carried fin, 0 if none
PreviousFin(i) ==
    LET before == {j \in FinCalls : j < i}
    IN  IF before = {} THEN 0 ELSE CHOOSE j \in before : \A k \in before : k <= j

\* the payloads of the calls a+1..b, in order, as one byte string
RECURSIVE PayloadsOf(_, _)
PayloadsOf(a, b) == IF a >= b THEN <<>> ELSE PayloadsOf(a, b - 1) \o received[b][2]

\* how many of the calls 1..i carried fin
FinsUpTo(i) == Cardinality({j \in FinCalls : j <= i})

\* C13: the wrapped protocol has received one message per frame with fin, in
\* order, each the concatenation of the payloads of the frames since the
\* previous frame with fin; the accumulator holds the payloads received since
\* the last frame with fin, so it is empty after every frame with fin and no
\* frame without fin delivers anything.
C13_Reassembly ==
    /\ Len(wrapped) = Cardinality(FinCalls)
    /\ \A i \in FinCalls :
          wrapped[FinsUpTo(i)] = <<"dataReceived", PayloadsOf(PreviousFin(i), i)>>
    /\ Join(messages) = PayloadsOf(PreviousFin(Len(received) + 1), Len(received))
    /\ (received # <<>> /\ received[Len(received)][3]) => messages = <<>>

\* a message of two frames was delivered as one, and a frame without fin waits
C13_Witness ==
    /\ Len(received) = 3
    /\ ~received[1][3] /\ received[2][3] /\ ~received[3][3]
    /\ received[1][2] # received[2][2]
    /\ wrapped = << <<"dataReceived", received[1][2] \o received[2][2]>> >>
    /\ messages = <<received[3][2]>>

\* C20: every message written through write or writeSequence has produced one
\* frame, in the order written: unmasked, fin set, the default opcode, the
\* message as payload; nothing else is written to the transport.
C20_OneFramePerMessage ==
    /\ Len(log) = Len(written)
    /\ \A i \in 1..Len(written) :
          log[i] = <<"transport.write",
                     <<128 + defaultOpcode, Len(written[i])>> \o written[i]>>

\* writeSequence has written two messages, after a write
C20_Witness ==
    /\ sends = 2
    /\ defaultOpcode = BINARY
    /\ written = <<<<104, 105>>, <<>>, <<104, 105>>>>
    /\ Len(log) = 3



(***************************************************************************)
(* Properties of render (SpecRender).  What a request asks for is stated   *)
(* from the values a client may send, not from the checks of render.       *)
(***************************************************************************)
Rendered == result \in {"", "NOT_DONE_YET"}

\* the checks a request passes
MethodIsGet == request.method = "GET"
OffersWebSocket == request.upgrade \in {<<websocket>>, <<WebSocketMixed>>}
AsksUpgrade == request.connection \in {<<UpgradeMixed>>, <<KeepAliveUpgrade>>}
HasKey == request.key # None
VersionIs13 == request.version = <<"13">>
ChecksPass == MethodIsGet /\ OffersWebSocket /\ AsksUpgrade /\ HasKey /\ VersionIs13

\* the places in ops where an operation was done
Places(op) == {i \in 1..Len(ops) : ops[i] = op}
PlacesOf(kind) == {i \in 1..Len(ops) : ops[i][1] = kind}
HeaderPlaces(name) == {i \in 1..Len(ops) : ops[i][1] = "setHeader" /\ ops[i][2] = name}

Detached == PlacesOf("request.transport =")
Attached == PlacesOf("transport.protocol =") \cup PlacesOf("transport.protocol.wrappedProtocol =")
Connected == PlacesOf("makeConnection")
Flushed == Places(<<"write", "">>)

\* the connection a handler gets: itself if it handles frames, else an adapter
ConnectionFor == IF lookup.protocol = "frames" THEN <<"handler">>
                 ELSE <<"WebSocketsProtocolWrapper", "handler">>

NameChosen == lookup.name \notin {None, <<"">>}

\* C14: on a successful upgrade, status 101 and the Upgrade, Connection and
\* Sec-WebSocket-Accept headers (and Sec-WebSocket-Protocol exactly when a name
\* was chosen) are set and then flushed; after the flush the transport is
\* detached from the request; after that it is attached to one connection,
\* which is made exactly once: the handler itself if it handles frames, an
\* adapter wrapping it otherwise.
C14_UpgradeHandsOver ==
    (Rendered /\ ChecksPass /\ lookup.protocol # "none") =>
        /\ result = "NOT_DONE_YET"
        /\ Cardinality(Flushed) = 1 /\ Cardinality(Detached) = 1
        /\ Cardinality(Attached) = 1 /\ Cardinality(Connected) = 1
        /\ \A f \in Flushed, d \in Detached, a \in Attached, c \in Connected :
              /\ f < d /\ d < a /\ a < c
              /\ ops[d][2] = None
              /\ ops[a][2] = ConnectionFor
              /\ ops[c][2] = ConnectionFor
              /\ Places(<<"setResponseCode", 101>>) # {}
              /\ \A i \in PlacesOf("setResponseCode") : ops[i][2] = 101 /\ i < f
              /\ \A name \in {"Upgrade", "Connection", "Sec-WebSocket-Accept"} :
                    HeaderPlaces(name) # {}
              /\ \A i \in PlacesOf("setHeader") : i < f
              /\ (HeaderPlaces("Sec-WebSocket-Protocol") # {}) = NameChosen
              /\ \A i \in HeaderPlaces("Sec-WebSocket-Protocol") : <<ops[i][3]>> = lookup.name

\* a handler that does not handle frames was connected through an adapter, with
\* a protocol name, over TLS
C14_Witness ==
    /\ result = "NOT_DONE_YET"
    /\ lookup = [protocol |-> "plain", name |-> <<"chat">>]
    /\ request.tls
    /\ request.upgrade = <<WebSocketMixed>>
    /\ request.connection = <<KeepAliveUpgrade>>
    /\ Len(ops) = 11

\* C15: render answers 400 with an empty body exactly when a check fails; then
\* lookupProtocol is not called, the transport stays with the request, no
\* connection is attached, and if the version is not "13" the response carries
\* Sec-WebSocket-Version: 13.
C15_Rejection ==
    Rendered =>
        /\ (Places(<<"setResponseCode", 400>>) # {}) = ~ChecksPass
        /\ ~ChecksPass =>
              /\ result = ""
              /\ \A i \in PlacesOf("setResponseCode") : ops[i][2] = 400
              /\ PlacesOf("lookupProtocol") = {}
              /\ Detached = {} /\ Attached = {} /\ Connected = {} /\ Flushed = {}
              /\ ~VersionIs13 => Places(<<"setHeader", "Sec-WebSocket-Version", "13">>) # {}

\* a request that fails only the version check was rejected
C15_Witness ==
    /\ result = ""
    /\ MethodIsGet /\ OffersWebSocket /\ AsksUpgrade /\ HasKey
    /\ request.version = <<"8">>
    /\ lookup.protocol = "plain"
    /\ ops = << <<"request.defaultContentType =", None>>,
                <<"setHeader", "Sec-WebSocket-Version", "13">>,
                <<"setResponseCode", 400>> >>

\* C16: when the checks pass and lookupProtocol returns no handler, render
\* answers 502 with an empty body, never sets status 101 or
\* Sec-WebSocket-Accept, leaves the transport with the request and attaches no
\* connection.
C16_NegotiationFailure ==
    (Rendered /\ ChecksPass /\ lookup.protocol = "none") =>
        /\ result = ""
        /\ Places(<<"setResponseCode", 502>>) # {}
        /\ \A i \in PlacesOf("setResponseCode") : ops[i][2] = 502
        /\ HeaderPlaces("Sec-WebSocket-Accept") = {}
        /\ Detached = {} /\ Attached = {} /\ Connected = {} /\ Flushed = {}

\* a request that passes the checks was answered 502
C16_Witness ==
    /\ result = ""
    /\ ChecksPass
    /\ lookup.protocol = "none"
    /\ ops = << <<"request.defaultContentType =", None>>,
                <<"lookupProtocol">>,
                <<"setResponseCode", 502>> >>



(***************************************************************************)
(* Further properties of the codec (SpecCodec) and of _mask (SpecMask).    *)
(***************************************************************************)
\* how many bytes the extended length takes for a payload of n bytes
ExtendedBytes(n) == IF n <= 125 THEN 0 ELSE IF n <= 65535 THEN 2 ELSE 8

CloseParsed ==
    pc = "whole" /\ origin = "peer" /\ input.opcode = CLOSE /\ (needMask => input.key # None)

\* C18: a parsed CLOSE frame whose payload has two bytes or more yields the
\* pair of the first two bytes as a big-endian number and the remaining
\* bytes, so 0x03 0xE8 yields (1000, empty); a payload of 0 or 1 byte yields
\* (1000, "No reason given").
C18_CloseDecoding ==
    CloseParsed =>
        LET p == Payload(input.n)
        IN  /\ ~parsed.raised
            /\ Len(parsed.frames) = 1
            /\ input.n >= 2 =>
                  parsed.frames[1][2] = <<"tuple", p[1] * 256 + p[2], SubSeq(p, 3, input.n)>>
            /\ input.n = 2 => parsed.frames[1][2] = <<"tuple", 1000, <<>>>>
            /\ input.n < 2 =>
                  parsed.frames[1][2] =
                      <<"tuple", 1000,
                        <<78, 111, 32, 114, 101, 97, 115, 111, 110, 32, 103, 105, 118, 101, 110>>>>

\* the masked CLOSE frame with payload 0x03 0xE8 was parsed
C18_Witness ==
    /\ CloseParsed
    /\ input.n = 2
    /\ input.key = Key
    /\ needMask
    /\ Len(parsed.frames) = 1
    /\ parsed.frames[1][2][2] = 1000

\* exclusive or of two bytes, bit by bit
XorBit(a, b, k) == ((((a \div (2 ^ k)) % 2) + ((b \div (2 ^ k)) % 2)) % 2) * (2 ^ k)
Xor(a, b) == XorBit(a, b, 0) + XorBit(a, b, 1) + XorBit(a, b, 2) + XorBit(a, b, 3)
             + XorBit(a, b, 4) + XorBit(a, b, 5) + XorBit(a, b, 6) + XorBit(a, b, 7)

\* C19: _mask keeps the length, its i-th byte (from 0) is data[i] XOR
\* key[i mod 4], and applied twice with the same key it gives the data back.
C19_MaskSelfInverse ==
    /\ pc = "masked" =>
          /\ Len(frame) = Len(input.data)
          /\ \A i \in 1..Len(frame) :
                frame[i] = Xor(input.data[i], input.key[((i - 1) % 4) + 1])
    /\ pc = "unmasked" => frame = input.data

\* five bytes were masked with a key of four different bytes, and unmasked again
C19_Witness ==
    /\ pc = "unmasked"
    /\ input.data = <<97, 0, 255, 97, 97>>
    /\ input.key = <<55, 0, 255, 55>>
    /\ frame = input.data



(***************************************************************************)
(* Further properties of the connection (Spec, SpecApp).                   *)
(***************************************************************************)
\* sub can be had from seq by leaving entries out
RECURSIVE IsSubsequence(_, _)
IsSubsequence(sub, seq) ==
    IF sub = <<>> THEN TRUE
    ELSE IF seq = <<>> THEN FALSE
    ELSE IF Head(sub) = Head(seq) THEN IsSubsequence(Tail(sub), Tail(seq))
    ELSE IsSubsequence(sub, Tail(seq))

\* the valid frames among those received completely, in stream order
RECURSIVE ValidOf(_)
ValidOf(ids) ==
    IF ids = <<>> THEN <<>>
    ELSE (IF PeerFrames[Head(ids)].valid THEN <<Head(ids)>> ELSE <<>>) \o ValidOf(Tail(ids))

\* C21: whatever dataReceived calls were made, also after a CLOSE frame or a
\* protocol error, each frame received completely was forwarded at most once
\* and each PING answered by at most one PONG: the forwards and PONGs, in
\* order, are had from those of the frames received by leaving some out.
C21_AtMostOnce ==
    IsSubsequence(DispatchLog, Expected(ValidOf(SubSeq(peer, 1, Completed))))

IsTransportOp(e) == e[1] \in {"transport.write", "transport.loseConnection"}

\* C22: after the connection told the transport to close, it does nothing more
\* on the transport: in the log no write and no second close follows the first
\* transport.loseConnection.
C22_NothingAfterTransportClose ==
    \A i, j \in 1..Len(log) :
        (i < j /\ log[i] = <<"transport.loseConnection">>) => ~IsTransportOp(log[j])

\* the first CLOSE frame of the stream, if any
CloseFrames == {j \in 1..Len(peer) : PeerFrames[peer[j]].opcode = CLOSE}
FirstClose == CHOOSE j \in CloseFrames : \A k \in CloseFrames : j <= k

\* what the valid frames before the first CLOSE frame are forwarded and answered as
EventsBeforeClose ==
    LET events == Expected(ValidOf(SubSeq(peer, 1, FirstClose - 1)))
    IN  {events[i] : i \in 1..Len(events)}

\* C23: nothing that follows the first CLOSE frame of the stream is forwarded
\* or answered with a PONG, in the batch of the CLOSE or a later one: every
\* forward and every PONG is that of a frame before the CLOSE frame.
C23_NothingAfterCloseFrame ==
    CloseFrames # {} =>
        \A i \in 1..Len(DispatchLog) : DispatchLog[i] \in EventsBeforeClose

\* a PING arrived in a batch of its own after the CLOSE frame and was not answered
C23_Witness ==
    /\ peer = <<6, 4>>
    /\ chunks = 2
    /\ sent = Len(wire)
    /\ CloseReceived
    /\ DispatchLog = <<>>
    /\ Len(buffer) > 8



(***************************************************************************)
(* Properties of the adapter as connection (SpecAdapted).                  *)
(***************************************************************************)
\* the data frames among the frames received completely, in stream order
RECURSIVE DataOf(_)
DataOf(ids) ==
    IF ids = <<>> THEN <<>>
    ELSE (IF PeerFrames[Head(ids)].opcode \in {CONTINUE, TEXT, BINARY}
          THEN <<Head(ids)>> ELSE <<>>) \o DataOf(Tail(ids))

Fragments == DataOf(SubSeq(peer, 1, Completed))

FinalFragments == {i \in 1..Len(Fragments) : PeerFrames[Fragments[i]].fin}

\* the last final fragment before the i-th fragment, 0 if none
PreviousFinal(i) ==
    LET before == {j \in FinalFragments : j < i}
    IN  IF before = {} THEN 0 ELSE CHOOSE j \in before : \A k \in before : k <= j

\* the payloads of the fragments a+1..b, in order, as one byte string
RECURSIVE FragmentsJoined(_, _)
FragmentsJoined(a, b) ==
    IF a >= b THEN <<>>
    ELSE FragmentsJoined(a, b - 1) \o PeerFrames[Fragments[b]].payload

\* C24: on an adapted connection, with PINGs and PONGs anywhere between the
\* fragments of a message, each PING has its PONG at its place in the order of
\* the stream, the accumulator holds only the payloads of the data fragments
\* since the last final one, and the wrapped handler has received one message
\* per final fragment, the concatenation of the data fragments in order.
C24_ControlFramesBetweenFragments ==
    /\ DispatchLog = Expected(SubSeq(peer, 1, Completed))
    /\ Join(messages) = FragmentsJoined(PreviousFinal(Len(Fragments) + 1), Len(Fragments))
    /\ Len(messages) = Len(Fragments) - PreviousFinal(Len(Fragments) + 1)
    /\ Len(wrapped) = Cardinality(FinalFragments)
    /\ \A i \in FinalFragments :
          wrapped[Cardinality({j \in FinalFragments : j <= i})]
              = <<"dataReceived", FragmentsJoined(PreviousFinal(i), i)>>

\* a PING arrived between the two fragments of a message, in another batch than
\* the first fragment: it was answered between them, and one message delivered
C24_Witness ==
    /\ peer = <<2, 4, 3>>
    /\ chunks = 2
    /\ Completed = 3
    /\ log = << <<"frameReceived", BINARY, StrData(<<72, 101>>), FALSE>>,
                <<"transport.write", <<138, 1, 112>>>>,
                <<"frameReceived", CONTINUE, StrData(<<108>>), TRUE>> >>
    /\ wrapped = << <<"dataReceived", <<72, 101, 108>>>> >>
    /\ messages = <<>>


=============================================================================
